---- MODULE Spec2Model ----
(***************************************************************************)
(* rule-scout: the two batch jobs of the repository.                       *)
(*   discovery  src/rule_scout.py           main()                         *)
(*   refresh    src/update-comment-date.py  module-level loop              *)
(* Text is a sequence of one-character strings, so that the conversions    *)
(* between id lists and the store's rich text (join, split, strip, sort)   *)
(* are computed and not assumed.  Python's falsy values None, '' and []    *)
(* are all written <<>> wherever the code only tests truthiness; an absent *)
(* date is the number None.                                                *)
(***************************************************************************)
EXTENDS Integers, Sequences, FiniteSets, TLC

\* ------------------------------------------------------------------ text

\* The characters in use, in code point order (Python compares str by code point).
Chars ==
  << " ", ",", "-", "/", "0", "1", "2", "3", "4", "5", "6", "7", "8", "9",
     ";", "<", ">",
     "A", "B", "C", "D", "E", "F", "G", "H", "I", "J", "K", "L", "M",
     "N", "O", "P", "Q", "R", "S", "T", "U", "V", "W", "X", "Y", "Z",
     "a", "b", "c", "d", "e", "f", "g", "h", "i", "j", "k", "l", "m",
     "n", "o", "p", "q", "r", "s", "t", "u", "v", "w", "x", "y", "z" >>

Ord(c) == CHOOSE i \in 1..Len(Chars) : Chars[i] = c

OrdUpperA == Ord("A")
OrdUpperZ == Ord("Z")
OrdLowerA == Ord("a")

\* \w of the re module, over the alphabet
IsWordChar(c) == (Ord(c) >= Ord("0") /\ Ord(c) <= Ord("9")) \/ Ord(c) >= OrdUpperA

\* str.lower()
LowerChar(c) ==
  IF Ord(c) >= OrdUpperA /\ Ord(c) <= OrdUpperZ
    THEN Chars[Ord(c) - OrdUpperA + OrdLowerA]
    ELSE c

Lower(s) == [i \in 1..Len(s) |-> LowerChar(s[i])]

\* Python's < on str
RECURSIVE StrLess(_, _)
StrLess(a, b) ==
  IF b = <<>> THEN FALSE
  ELSE IF a = <<>> THEN TRUE
  ELSE IF a[1] = b[1] THEN StrLess(Tail(a), Tail(b))
  ELSE Ord(a[1]) < Ord(b[1])

StrLeq(a, b) == a = b \/ StrLess(a, b)

\* sorted(list_of_str)
sorted(xs) == SortSeq(xs, LAMBDA a, b : StrLess(a, b))

RECURSIVE SetToSeq(_)
SetToSeq(S) ==
  IF S = {} THEN <<>>
  ELSE LET x == CHOOSE y \in S : \A z \in S : StrLeq(y, z)
       IN <<x>> \o SetToSeq(S \ {x})

\* sorted(set_of_str)
sortedSet(S) == SetToSeq(S)

\* set(list)
set(xs) == {xs[i] : i \in 1..Len(xs)}

RECURSIVE Concat(_)
Concat(xs) == IF xs = <<>> THEN <<>> ELSE xs[1] \o Concat(Tail(xs))

\* sep.join(xs)
RECURSIVE join(_, _)
join(sep, xs) ==
  IF xs = <<>> THEN <<>>
  ELSE IF Len(xs) = 1 THEN xs[1]
  ELSE xs[1] \o sep \o join(sep, Tail(xs))

StartsWith(s, p) == Len(s) >= Len(p) /\ SubSeq(s, 1, Len(p)) = p

Drop(s, n) == SubSeq(s, n + 1, Len(s))

\* s.split(sep) for a non-empty separator: always at least one item
RECURSIVE split(_, _)
split(s, sep) ==
  LET hits == {i \in 1..Len(s) : StartsWith(Drop(s, i - 1), sep)}
  IN IF hits = {} THEN <<s>>
     ELSE LET i == CHOOSE j \in hits : \A k \in hits : j <= k
          IN <<SubSeq(s, 1, i - 1)>> \o split(Drop(s, i - 1 + Len(sep)), sep)

\* s.strip(chars)
RECURSIVE stripChars(_, _)
stripChars(s, cs) ==
  IF s = <<>> THEN s
  ELSE IF s[1] \in cs THEN stripChars(Tail(s), cs)
  ELSE IF s[Len(s)] \in cs THEN stripChars(SubSeq(s, 1, Len(s) - 1), cs)
  ELSE s

\* s.strip(): the only whitespace of the alphabet is the space
strip(s) == stripChars(s, {" "})

\* s.replace(old, new) / re.sub of a literal pattern
RECURSIVE replace(_, _, _)
replace(s, old, new) ==
  IF s = <<>> THEN <<>>
  ELSE IF StartsWith(s, old) THEN new \o replace(Drop(s, Len(old)), old, new)
  ELSE <<s[1]>> \o replace(Tail(s), old, new)

\* s in text: substring test
Contains(s, p) == \E i \in 1..(Len(s) + 1) : StartsWith(Drop(s, i - 1), p)

RECURSIVE SkipSpaces(_)
SkipSpaces(s) == IF s # <<>> /\ s[1] = " " THEN SkipSpaces(Tail(s)) ELSE s

\* re.split(r',\s+', s)
RECURSIVE reSplitCommaSpaces(_)
reSplitCommaSpaces(s) ==
  LET hits == {i \in 1..(Len(s) - 1) : s[i] = "," /\ s[i + 1] = " "}
  IN IF hits = {} THEN <<s>>
     ELSE LET i == CHOOSE j \in hits : \A k \in hits : j <= k
          IN <<SubSeq(s, 1, i - 1)>> \o reSplitCommaSpaces(SkipSpaces(Drop(s, i)))

\* re.sub(r'\s*,\s*', ' - ', s)
RECURSIVE reSubCommaDash(_)
reSubCommaDash(s) ==
  IF s = <<>> THEN <<>>
  ELSE LET rest == SkipSpaces(s)
       IN IF rest # <<>> /\ rest[1] = ","
            THEN <<" ", "-", " ">> \o reSubCommaDash(SkipSpaces(Tail(rest)))
            ELSE <<s[1]>> \o reSubCommaDash(Tail(s))

\* re.sub(r'</?\w+[^>]*>', '', s)
RECURSIVE reSubMarkup(_)
reSubMarkup(s) ==
  IF s = <<>> THEN <<>>
  ELSE LET name == IF Len(s) >= 2 /\ s[2] = "/" THEN Drop(s, 2) ELSE Tail(s)
           closes == {i \in 1..Len(name) : name[i] = ">"}
       IN IF s[1] = "<" /\ name # <<>> /\ IsWordChar(name[1]) /\ closes # {}
            THEN reSubMarkup(Drop(name, CHOOSE j \in closes : \A k \in closes : j <= k))
            ELSE <<s[1]>> \o reSubMarkup(Tail(s))

\* ------------------------------------------------------------------ values

\* Python's None for a date; a present date is a number of seconds >= 0.
None == -1

\* datetime.replace(second=0, microsecond=0)
SecondsPerMinute == 60
TruncateToMinute(t) == t - (t % SecondsPerMinute)

Max(S) == CHOOSE x \in S : \A y \in S : y <= x

CommaSpace == <<",", " ">>
NotAssignedLower == <<"n", "o", "t", " ", "a", "s", "s", "i", "g", "n", "e", "d">>
NotAssignedTitle == <<"N", "o", "t", " ", "A", "s", "s", "i", "g", "n", "e", "d">>
NotAssignedUpper == <<"N", "O", "T", " ", "A", "S", "S", "I", "G", "N", "E", "D">>

\* ------------------------------------------------------------------ Notion cells

segment_length == 2000
max_segments == 100

notion_text(text, link) == [plain_text |-> text, link |-> link]

RECURSIVE RichTextSegments(_, _)
RichTextSegments(remainder, segments) ==
  IF remainder # <<>> /\ Len(segments) < max_segments
    THEN RichTextSegments(Drop(remainder, segment_length),
           Append(segments, notion_text(SubSeq(remainder, 1,
             IF Len(remainder) < segment_length THEN Len(remainder) ELSE segment_length), <<>>)))
    ELSE segments

notion_rich_text(text) ==
  [type |-> "rich_text", rich_text |-> RichTextSegments(text, <<>>)]

\* items: a sequence of <<text, url>>
RECURSIVE notion_rich_text_url_list(_)
notion_rich_text_url_list(items) ==
  IF items = <<>> THEN <<>>
  ELSE LET n == Len(items)
           before == notion_rich_text_url_list(SubSeq(items, 1, n - 1))
       IN (IF n > 1 THEN Append(before, notion_text(CommaSpace, <<>>)) ELSE before)
            \o <<notion_text(items[n][1], items[n][2])>>

rich_text_cell(segments) == [type |-> "rich_text", rich_text |-> segments]
multi_select_cell(names) == [type |-> "multi_select", multi_select |-> names]
date_cell(d) == [type |-> "date", date |-> d]
title_cell(text) == [type |-> "title", title |-> <<notion_text(text, <<>>)>>]
url_cell(u) == [type |-> "url", url |-> u]

\* NotionApi.cell_as_text: None (<<>>) for a cell with no segments
cell_as_text(cell) ==
  LET raw_value == cell[cell.type]
  IN IF raw_value # <<>>
       THEN Concat([i \in 1..Len(raw_value) |-> raw_value[i].plain_text])
       ELSE <<>>

\* NotionApi.cell_as_datetime
cell_as_datetime(cell) == cell.date

parse_rich_text_list(notion_object) ==
  LET text == cell_as_text(notion_object)
  IN IF text # <<>>
       THEN LET items == split(text, <<",">>)
            IN [i \in 1..Len(items) |-> strip(items[i])]
       ELSE <<>>

parse_multiselect_set(notion_object) == set(notion_object.multi_select)

document_url(d) == <<"https://www.regulations.gov/document/", d>>
docket_url(d) == <<"https://www.regulations.gov/docket/", d>>

\* ------------------------------------------------------------------ Docket.from_api

Docket_from_api(data) ==
  LET raw == data.attributes.rin
      rin == IF raw # <<>> /\ Lower(raw) = NotAssignedLower THEN <<>> ELSE raw
      listed == data.attributes.keywords
      stripped == [i \in 1..Len(listed) |-> stripChars(listed[i], {",", " "})]
      keywords == IF Len(stripped) = 1 /\ Contains(stripped[1], CommaSpace)
                    THEN reSplitCommaSpaces(stripped[1])
                    ELSE stripped
  IN [id |-> data.id,
      url |-> docket_url(data.id),
      keywords |-> [i \in 1..Len(keywords) |-> replace(keywords[i], <<",">>, <<";">>)],
      rin |-> rin]

\* ------------------------------------------------------------------ bounds and inputs

MaxFeed == 2
MaxDocs == 2
MaxPages == 3

N1 == <<"9", "9", "-", "1">>
N2 == <<"9", "9", "-", "2">>
FrNumbers == {N1, N2}

D1 == <<"D", "1">>
D2 == <<"D", "2">>
D4 == <<"D", "4">>
K1 == <<"K", "1">>
DocketIds == {K1}
R1 == <<"1", "-", "A">>
R2 == <<"2", "-", "B">>

\* One entry of the regulations.gov document listing (and of the document detail).
Found(id, docketId, commentEndDate) ==
  [id |-> id, attributes |-> [docketId |-> docketId, commentEndDate |-> commentEndDate]]

\* What regulations.gov may list for a register id: N1 has documents that share
\* a docket, N2 a single document without a docket.
Listable(n) ==
  IF n = N1 THEN {Found(D1, K1, 61), Found(D2, K1, 130)}
            ELSE {Found(D4, <<>>, 59)}

SeqsUpTo(S, n) == UNION {[1..k -> S] : k \in 0..n}

DocInfoChoices(n) ==
  IF n = N1 THEN SeqsUpTo(Listable(n), MaxDocs) ELSE [1..1 -> Listable(n)]

DocketData(id, rin, keywords) ==
  [id |-> id, attributes |-> [rin |-> rin, keywords |-> keywords]]

\* What regulations.gov may answer for a docket.
DocketChoices(id) ==
  {DocketData(id, R1, << <<"a", ",", " ", "b">> >>),
   DocketData(id, NotAssignedUpper, << <<"b">> >>)}

DocketAnswers == {f \in [DocketIds -> UNION {DocketChoices(k) : k \in DocketIds}] :
                    \A k \in DocketIds : f[k] \in DocketChoices(k)}

\* The register's detail of a filing with the result of get_rule_authority.
Topics(n) == IF n = N1 THEN << <<"t">>, <<"b">>, <<"t">> >> ELSE << <<"t", ",", " ", "u">> >>

AgenciesOf(n) ==
  IF n = N1 THEN << [raw_name |-> <<"O", "I", "G">>], [id |-> 17, name |-> <<"E", "P", "A">>] >>
            ELSE << [id |-> 5, name |-> <<"D", "O", "T", ",", " ", "F", "A", "A">>] >>

RuleInfos(n) ==
  {[document_number |-> n,
    title |-> <<"R", "u", "l", "e", " ">> \o n,
    abstract |-> <<"C", "O", "<", "i", "n", "f", ">", "2", "<", "/", "i", "n", "f", ">">>,
    agencies |-> AgenciesOf(n),
    authority |-> << <<"5", " ", "U">>, <<"7", " ", "U">> >>,
    citation |-> <<"9", "0", " ", "F", "R", " ">> \o n,
    html_url |-> <<"https://www.federalregister.gov/d/", n>>,
    pdf_url |-> <<"https://www.govinfo.gov/", n>>,
    publication_date |-> IF n = N1 THEN 20 ELSE 10,
    topics |-> Topics(n),
    regulation_id_numbers |-> rins,
    comments_close_on |-> close,
    correction_of |-> corr] :
      rins \in (IF n = N1 THEN {<<>>, <<R2>>} ELSE {<<>>}),
      close \in (IF n = N1 THEN {None, 100} ELSE {None}),
      corr \in {<<>>, <<"https://www.federalregister.gov/api/v1/documents/", N2>>}}

Injective(f) == \A i, j \in DOMAIN f : f[i] = f[j] => i = j

\* A listing of recent proposed rules: each document number at most once.
Feeds == {f \in SeqsUpTo(FrNumbers, MaxFeed) : Injective(f)}

\* ------------------------------------------------------------------ state

VARIABLES
  store,                     \* the Notion data source: a sequence of pages, a page's id is its index
  pc,                        \* "idle", "discover" (main's loop) or "refresh" (the refresh loop)
  already_in_notion,         \* discovery: the document numbers read at the start of the run
  feed,                      \* discovery: what register.get_recent_proposed_rules has yet to yield
  rule_rows,                 \* refresh: the rows of the query that the loop has yet to visit
  ALWAYS_UPDATE_DOCKET_DATA, \* refresh: the module's flag
  run,                       \* history: the run in progress
  last                       \* history: the latest iteration of the run, or how it failed

vars == <<store, pc, already_in_notion, feed, rule_rows, ALWAYS_UPDATE_DOCKET_DATA, run, last>>

Pages == 1..Len(store)

\* ------------------------------------------------------------------ discovery (rule_scout.main)

\* already_in_notion: the query keeps the rows whose FR Document Number is not empty
KnownNumbers(rows) ==
  {cell_as_text(rows[i].properties["FR Document Number"]) :
     i \in {j \in 1..Len(rows) : rows[j].properties["FR Document Number"].rich_text # <<>>}}

IsKnownNever(register_id, known) == FALSE

\* if register_id in already_in_notion: continue
IsKnown(register_id, known) == register_id \in known

IsCorrectionNever(rule_info) == FALSE

\* if rule_info['correction_of']: continue
IsCorrection(rule_info) == rule_info.correction_of # <<>>

\* data.docket_documents, with the docket of each document that has one
DocketDocuments(doc_infos, dockets) ==
  [i \in 1..Len(doc_infos) |->
     LET document_info == doc_infos[i]
         docket_id == document_info.attributes.docketId
     IN [id |-> document_info.id,
         url |-> document_url(document_info.id),
         comment_end_date |-> document_info.attributes.commentEndDate,
         has_docket |-> docket_id # <<>>,
         docket |-> IF docket_id # <<>> THEN Docket_from_api(dockets[docket_id])
                    ELSE Docket_from_api(DocketData(<<>>, <<>>, <<>>))]]

\* data.rins: the register's numbers, then each docket's RIN not yet listed
RECURSIVE CollectRins(_, _)
CollectRins(rins, documents) ==
  IF documents = <<>> THEN rins
  ELSE LET d == documents[1]
       IN CollectRins(
            IF d.has_docket /\ d.docket.rin # <<>> /\ d.docket.rin \notin set(rins)
              THEN Append(rins, d.docket.rin) ELSE rins,
            Tail(documents))

\* comment_end: the latest date of the documents that have one, else the register's
DiscoveryCommentEnd(documents, fallback) ==
  LET commentable == {documents[i].comment_end_date :
                        i \in {j \in 1..Len(documents) : documents[j].comment_end_date # None}}
  IN IF commentable # {} THEN Max(commentable) ELSE fallback

\* The literal appended to a cut authority text: in the source file it is the
\* three characters U+00E2 U+20AC U+00A6, each written here by its name.
Ellipsis == <<"U+00E2", "U+20AC", "U+00A6">>

AuthorityString(authority) ==
  LET authority_string == join(<<";", " ">>, authority)
  IN IF Len(authority_string) >= 2000
       THEN SubSeq(authority_string, 1, 1999) \o Ellipsis
       ELSE authority_string

DiscoveryKeywords(documents) ==
  sortedSet(UNION {set(documents[i].docket.keywords) :
                     i \in {j \in 1..Len(documents) : documents[j].has_docket}})

\* The properties that main hands to insert_into_db.
DiscoveryProperties(register_id, rule_info, doc_infos, dockets) ==
  LET documents == DocketDocuments(doc_infos, dockets)
      rins == CollectRins(rule_info.regulation_id_numbers, documents)
      fr_topics == sortedSet(set(rule_info.topics))
      topic_names == [i \in 1..Len(fr_topics) |-> replace(fr_topics[i], CommaSpace, <<" ", "a", "n", "d", " ">>)]
      keywords == DiscoveryKeywords(documents)
      tag_names == [i \in 1..Len(keywords) |-> replace(keywords[i], CommaSpace, <<" ", "a", "n", "d", " ">>)]
      with_id == SelectSeq(rule_info.agencies, LAMBDA agency : "id" \in DOMAIN agency)
      with_docket == SelectSeq(documents, LAMBDA d : d.has_docket)
      comment_end == DiscoveryCommentEnd(documents, rule_info.comments_close_on)
  IN ("FR Citation" :> notion_rich_text(rule_info.citation))
  @@ ("FR Topics" :> multi_select_cell(topic_names))
  @@ ("FR Document Number" :> notion_rich_text(register_id))
  @@ ("FR PDF" :> url_cell(rule_info.pdf_url))
  @@ ("Docket Documents" :> rich_text_cell(notion_rich_text_url_list(
        [i \in 1..Len(documents) |-> <<documents[i].id, documents[i].url>>])))
  @@ ("Docket Keywords" :> multi_select_cell(keywords))
  @@ ("FR Publication Date" :> date_cell(rule_info.publication_date))
  @@ ("Dockets" :> rich_text_cell(notion_rich_text_url_list(
        [i \in 1..Len(with_docket) |-> <<with_docket[i].docket.id, with_docket[i].docket.url>>])))
  @@ ("RINs" :> notion_rich_text(join(CommaSpace, rins)))
  @@ ("Abstract" :> notion_rich_text(reSubMarkup(rule_info.abstract)))
  @@ ("Rule Name" :> notion_rich_text(rule_info.title))
  @@ ("Title" :> title_cell(rule_info.title))
  @@ ("Authority" :> notion_rich_text(AuthorityString(rule_info.authority)))
  @@ ("Agencies" :> multi_select_cell(
        [i \in 1..Len(with_id) |-> reSubCommaDash(with_id[i].name)]))
  @@ ("Comment End Date" :> date_cell(comment_end))
  @@ ("FR Link" :> url_cell(rule_info.html_url))
  @@ ("Tags" :> multi_select_cell(topic_names \o tag_names))

\* NotionApi.insert_into_db
insert_into_db(db, properties) == Append(db, [id |-> Len(db) + 1, properties |-> properties])

NoIteration == [op |-> "none"]
NoRun == [job |-> "none", held |-> {}]

\* The document numbers of the pages of the store.
HeldNumbers(db) ==
  {Concat([k \in 1..Len(db[i].properties["FR Document Number"].rich_text) |->
             db[i].properties["FR Document Number"].rich_text[k].plain_text]) : i \in 1..Len(db)}

StartDiscovery ==
  /\ pc = "idle"
  /\ pc' = "discover"
  /\ already_in_notion' = KnownNumbers(store)
  /\ \E listing \in Feeds : feed' = [i \in 1..Len(listing) |-> [document_number |-> listing[i]]]
  /\ run' = [job |-> "discover", held |-> HeldNumbers(store)]
  /\ last' = NoIteration
  /\ UNCHANGED <<store, rule_rows, ALWAYS_UPDATE_DOCKET_DATA>>

\* The filing is already in the store: nothing is fetched.
DiscoverKnown ==
  /\ pc = "discover" /\ feed # <<>>
  /\ LET register_id == feed[1].document_number
     IN /\ IsKnown(register_id, already_in_notion)
        /\ last' = [op |-> "known", register_id |-> register_id]
  /\ feed' = Tail(feed)
  /\ UNCHANGED <<store, pc, already_in_notion, rule_rows, ALWAYS_UPDATE_DOCKET_DATA, run>>

\* The filing corrects another one: skipped after its detail is fetched.
DiscoverCorrection ==
  /\ pc = "discover" /\ feed # <<>>
  /\ LET register_id == feed[1].document_number
     IN /\ ~IsKnown(register_id, already_in_notion)
        /\ \E rule_info \in RuleInfos(register_id) :
             /\ IsCorrection(rule_info)
             /\ last' = [op |-> "correction", register_id |-> register_id, rule_info |-> rule_info]
  /\ feed' = Tail(feed)
  /\ UNCHANGED <<store, pc, already_in_notion, rule_rows, ALWAYS_UPDATE_DOCKET_DATA, run>>

\* The filing is new: its documents and dockets are fetched and its page inserted.
DiscoverCreate ==
  /\ pc = "discover" /\ feed # <<>>
  /\ Len(store) < MaxPages
  /\ LET register_id == feed[1].document_number
     IN /\ ~IsKnown(register_id, already_in_notion)
        /\ \E rule_info \in RuleInfos(register_id), doc_infos \in DocInfoChoices(register_id),
              dockets \in DocketAnswers :
             /\ ~IsCorrection(rule_info)
             /\ store' = insert_into_db(store,
                           DiscoveryProperties(register_id, rule_info, doc_infos, dockets))
             /\ last' = [op |-> "create", register_id |-> register_id, rule_info |-> rule_info,
                         doc_infos |-> doc_infos, dockets |-> dockets]
  /\ feed' = Tail(feed)
  /\ UNCHANGED <<pc, already_in_notion, rule_rows, ALWAYS_UPDATE_DOCKET_DATA, run>>

\* A request of the iteration raises (raise_for_status after the transport's
\* retries, a KeyError on the payload, ValueError of insert_into_db): nothing
\* in main catches it, the process ends.
DiscoverFail ==
  /\ pc = "discover" /\ feed # <<>>
  /\ ~IsKnown(feed[1].document_number, already_in_notion)
  /\ pc' = "idle"
  /\ feed' = <<>>
  /\ run' = NoRun
  /\ last' = [op |-> "failed", job |-> "discover", at |-> feed[1].document_number,
              dropped |-> [i \in 1..(Len(feed) - 1) |-> feed[i + 1].document_number]]
  /\ already_in_notion' = {}
  /\ UNCHANGED <<store, rule_rows, ALWAYS_UPDATE_DOCKET_DATA>>

\* The listing is exhausted: print('Done!')
DiscoverDone ==
  /\ pc = "discover" /\ feed = <<>>
  /\ pc' = "idle"
  /\ run' = NoRun
  /\ last' = NoIteration
  /\ already_in_notion' = {}
  /\ UNCHANGED <<store, feed, rule_rows, ALWAYS_UPDATE_DOCKET_DATA>>

\* The process is stopped between two iterations; the store keeps what was written.
Interrupt ==
  /\ pc # "idle"
  /\ pc' = "idle"
  /\ feed' = <<>> /\ rule_rows' = <<>>
  /\ run' = NoRun
  /\ last' = NoIteration
  /\ already_in_notion' = {}
  /\ UNCHANGED <<store, ALWAYS_UPDATE_DOCKET_DATA>>

\* ------------------------------------------------------------------ refresh (update-comment-date.py)

NoUpdates == <<>>

\* The candidates of a run: the comment period is open as of the date, or there
\* is no comment end date and the publication is recent; by publication date.
ActiveAsOf == {15, 65}

query_db(db, active_as_of_date) ==
  LET Active(page) ==
        LET end == page.properties["Comment End Date"].date
            published == page.properties["FR Publication Date"].date
        IN (end # None /\ end >= active_as_of_date)
             \/ (end = None /\ published # None /\ published >= active_as_of_date)
      Before(p, q) ==
        LET a == p.properties["FR Publication Date"].date
            b == q.properties["FR Publication Date"].date
        IN a < b \/ (a = b /\ p.id < q.id)
  IN SortSeq(SelectSeq(db, Active), Before)

\* found_docs and found_dockets: one entry per listed document, in listing order
FoundDocs(doc_infos) == [i \in 1..Len(doc_infos) |-> doc_infos[i].id]

FoundDockets(doc_infos) ==
  LET with_docket == SelectSeq(doc_infos, LAMBDA found : found.attributes.docketId # <<>>)
  IN [i \in 1..Len(with_docket) |-> with_docket[i].attributes.docketId]

\* latest_comment_date: seeded with the stored date, raised by each later document date
IsLaterAlways(found_comment_date, latest_comment_date) == TRUE

\* if (not latest_comment_date) or found_comment_date > latest_comment_date
IsLater(found_comment_date, latest_comment_date) ==
  latest_comment_date = None \/ found_comment_date > latest_comment_date

RECURSIVE LatestCommentDate(_, _)
LatestCommentDate(latest_comment_date, doc_infos) ==
  IF doc_infos = <<>> THEN latest_comment_date
  ELSE LET listed == doc_infos[1].attributes.commentEndDate
           found_comment_date == TruncateToMinute(listed)
       IN LatestCommentDate(
            IF listed # None /\ IsLater(found_comment_date, latest_comment_date)
              THEN found_comment_date ELSE latest_comment_date,
            Tail(doc_infos))

DeadlineDiffersAlways(old_comment_deadline, latest_comment_date) == TRUE

\* if old_comment_deadline != latest_comment_date
DeadlineDiffers(old_comment_deadline, latest_comment_date) ==
  old_comment_deadline # latest_comment_date

ListsDifferInOrder(old, found) == old # found

\* if set(old) != set(found)
ListsDiffer(old, found) == set(old) # set(found)

\* updates['Docket Documents']: the linked ids, sorted
DocumentListCell(found_docs) ==
  LET ids == sorted(found_docs)
  IN rich_text_cell(notion_rich_text_url_list([i \in 1..Len(ids) |-> <<ids[i], document_url(ids[i])>>]))

\* updates['Dockets']: the linked ids, sorted
DocketListCell(found_dockets) ==
  LET ids == sorted(found_dockets)
  IN rich_text_cell(notion_rich_text_url_list([i \in 1..Len(ids) |-> <<ids[i], docket_url(ids[i])>>]))

\* if new_rins.difference(old_rins) or 'Not Assigned' in old_rins
RinsChanged(new_rins, old_rins) == new_rins \ old_rins # {} \/ NotAssignedTitle \in old_rins

KeptRinsNone(old_rins) == {}

\* the rins kept from the store: [rin for rin in old_rins if rin.lower() != 'not assigned']
KeptRins(old_rins) == {rin \in old_rins : Lower(rin) # NotAssignedLower}

TagsUpdateAsTopics(fr_topics, new_keywords) ==
  "FR Topics" :> multi_select_cell(sorted(SetToSeq(fr_topics) \o SetToSeq(new_keywords)))

\* updates['Tags']: the topics and the new keywords, sorted
TagsUpdate(fr_topics, new_keywords) ==
  "Tags" :> multi_select_cell(sorted(SetToSeq(fr_topics) \o SetToSeq(new_keywords)))

\* The docket metadata block: keywords, tags and RINs of the fetched dockets.
DocketDataUpdates(properties, found_dockets, dockets) ==
  LET fetched == [i \in 1..Len(found_dockets) |-> Docket_from_api(dockets[found_dockets[i]])]
      new_keywords == UNION {set(fetched[i].keywords) : i \in 1..Len(fetched)}
      new_rins == {fetched[i].rin : i \in {j \in 1..Len(fetched) : fetched[j].rin # <<>>}}
      old_keywords == parse_multiselect_set(properties["Docket Keywords"])
      fr_topics == parse_multiselect_set(properties["FR Topics"])
      old_rins == set(parse_rich_text_list(properties["RINs"]))
  IN (IF old_keywords # new_keywords
        THEN ("Docket Keywords" :> multi_select_cell(sortedSet(new_keywords)))
          @@ TagsUpdate(fr_topics, new_keywords)
        ELSE NoUpdates)
  @@ (IF RinsChanged(new_rins, old_rins)
        THEN "RINs" :> notion_rich_text(join(CommaSpace, sortedSet(new_rins \cup KeptRins(old_rins))))
        ELSE NoUpdates)

\* The updates dict of one iteration of the loop.
RefreshUpdates(properties, doc_infos, dockets, always) ==
  LET old_comment_deadline == cell_as_datetime(properties["Comment End Date"])
      old_docket_docs == parse_rich_text_list(properties["Docket Documents"])
      old_dockets == parse_rich_text_list(properties["Dockets"])
      found_docs == FoundDocs(doc_infos)
      found_dockets == FoundDockets(doc_infos)
      latest_comment_date == LatestCommentDate(old_comment_deadline, doc_infos)
      docs_update == IF ListsDiffer(old_docket_docs, found_docs)
                       THEN "Docket Documents" :> DocumentListCell(found_docs)
                       ELSE NoUpdates
      dockets_update == IF ListsDiffer(old_dockets, found_dockets)
                          THEN "Dockets" :> DocketListCell(found_dockets)
                          ELSE NoUpdates
  IN docs_update
  @@ dockets_update
  @@ (IF always \/ dockets_update # NoUpdates
        THEN DocketDataUpdates(properties, found_dockets, dockets)
        ELSE NoUpdates)
  @@ (IF DeadlineDiffers(old_comment_deadline, latest_comment_date)
        THEN "Comment End Date" :> date_cell(latest_comment_date)
        ELSE NoUpdates)

RefreshCallsDocketsUnthrottled(fr_number, doc_infos, updates, always) ==
  LET found_dockets == FoundDockets(doc_infos)
      fetches == IF always \/ "Dockets" \in DOMAIN updates THEN found_dockets ELSE <<>>
  IN << [call |-> "sleep", arg |-> <<>>], [call |-> "find_documents_by_register_id", arg |-> fr_number] >>
     \o [i \in 1..Len(fetches) |-> [call |-> "get_docket", arg |-> fetches[i]]]

\* The requests of one iteration to regulations.gov, each after its time.sleep
RefreshCalls(fr_number, doc_infos, updates, always) ==
  LET found_dockets == FoundDockets(doc_infos)
      fetches == IF always \/ "Dockets" \in DOMAIN updates THEN found_dockets ELSE <<>>
  IN << [call |-> "sleep", arg |-> <<>>], [call |-> "find_documents_by_register_id", arg |-> fr_number] >>
     \o Concat([i \in 1..Len(fetches) |->
          << [call |-> "sleep", arg |-> <<>>], [call |-> "get_docket", arg |-> fetches[i]] >>])

\* NotionApi.update_page: the named properties are replaced, the others kept
update_page(db, page_id, updates) ==
  [db EXCEPT ![page_id].properties =
     [name \in DOMAIN @ |-> IF name \in DOMAIN updates THEN updates[name] ELSE @[name]]]

StartRefresh ==
  /\ pc = "idle"
  /\ pc' = "refresh"
  /\ \E active_as_of_date \in ActiveAsOf : rule_rows' = query_db(store, active_as_of_date)
  /\ run' = [job |-> "refresh", held |-> HeldNumbers(store)]
  /\ last' = NoIteration
  /\ UNCHANGED <<store, already_in_notion, feed, ALWAYS_UPDATE_DOCKET_DATA>>

\* One iteration: fetch, compute the updates, write them when there are any.
RefreshStep ==
  /\ pc = "refresh" /\ rule_rows # <<>>
  /\ LET page == rule_rows[1]
         fr_number == cell_as_text(page.properties["FR Document Number"])
     IN \E doc_infos \in DocInfoChoices(fr_number), dockets \in DocketAnswers :
          LET updates == RefreshUpdates(page.properties, doc_infos, dockets, ALWAYS_UPDATE_DOCKET_DATA)
          IN /\ store' = IF DOMAIN updates # {} THEN update_page(store, page.id, updates) ELSE store
             /\ last' = [op |-> "refresh", page |-> page.id, old |-> page.properties,
                         doc_infos |-> doc_infos, dockets |-> dockets, updates |-> updates,
                         calls |-> RefreshCalls(fr_number, doc_infos, updates, ALWAYS_UPDATE_DOCKET_DATA)]
  /\ rule_rows' = Tail(rule_rows)
  /\ UNCHANGED <<pc, already_in_notion, feed, ALWAYS_UPDATE_DOCKET_DATA, run>>

\* A request of the iteration raises (raise_for_status, KeyError, ValueError of
\* update_page): nothing in the loop catches it, the process ends.
RefreshFail ==
  /\ pc = "refresh" /\ rule_rows # <<>>
  /\ pc' = "idle"
  /\ rule_rows' = <<>>
  /\ run' = NoRun
  /\ last' = [op |-> "failed", job |-> "refresh", at |-> rule_rows[1].id,
              dropped |-> [i \in 1..(Len(rule_rows) - 1) |-> rule_rows[i + 1].id]]
  /\ UNCHANGED <<store, already_in_notion, feed, ALWAYS_UPDATE_DOCKET_DATA>>

\* The rows are exhausted: the script ends.
RefreshDone ==
  /\ pc = "refresh" /\ rule_rows = <<>>
  /\ pc' = "idle"
  /\ run' = NoRun
  /\ last' = NoIteration
  /\ UNCHANGED <<store, already_in_notion, feed, rule_rows, ALWAYS_UPDATE_DOCKET_DATA>>

\* ------------------------------------------------------------------ specification

\* Pages written before the placeholder RIN was filtered out (the TODO of the
\* refresh loop): a page of N1 as discovery writes it, with the RIN text of old data.
LegacyRinTexts ==
  { NotAssignedTitle, NotAssignedLower, R1 \o CommaSpace \o NotAssignedUpper }

LegacyStores ==
  { << [id |-> 1,
        properties |->
          [name \in DOMAIN DiscoveryProperties(N1, info, <<Found(D1, K1, 61)>>, answers) |->
             IF name = "RINs" THEN notion_rich_text(text)
             ELSE DiscoveryProperties(N1, info, <<Found(D1, K1, 61)>>, answers)[name]]] >> :
      text \in LegacyRinTexts,
      info \in {i \in RuleInfos(N1) : ~IsCorrection(i) /\ i.comments_close_on = None
                                        /\ i.regulation_id_numbers = <<>>},
      answers \in {a \in DocketAnswers : Docket_from_api(a[K1]).rin = <<>>} }

Init ==
  /\ store \in {<<>>} \cup LegacyStores
  /\ pc = "idle"
  /\ already_in_notion = {}
  /\ feed = <<>>
  /\ rule_rows = <<>>
  /\ ALWAYS_UPDATE_DOCKET_DATA = FALSE
  /\ run = NoRun
  /\ last = NoIteration

Next ==
  \/ StartDiscovery
  \/ DiscoverKnown
  \/ DiscoverCorrection
  \/ DiscoverCreate
  \/ DiscoverFail
  \/ DiscoverDone
  \/ StartRefresh
  \/ RefreshStep
  \/ RefreshFail
  \/ RefreshDone
  \/ Interrupt

Spec == Init /\ [][Next]_vars

\* The two jobs with the module's flag as either value: the script as it is, or
\* edited to refresh the docket data of every record.
InitAlways ==
  /\ store \in {<<>>} \cup LegacyStores
  /\ pc = "idle"
  /\ already_in_notion = {}
  /\ feed = <<>>
  /\ rule_rows = <<>>
  /\ ALWAYS_UPDATE_DOCKET_DATA \in BOOLEAN
  /\ run = NoRun
  /\ last = NoIteration

SpecAlways == InitAlways /\ [][Next]_vars

\* ------------------------------------------------------------------ discovery of filings with long authority lists

\* The joined authority strings run from AuthorityMargin characters under the
\* cut of main to AuthorityMargin characters over it.
AuthorityMargin == 3

Repeat(c, n) == [i \in 1..n |-> c]

\* rule_info['authority'] of N1: one long citation, alone or followed by a short
\* one (which adds five characters to the joined string).
LongAuthorities ==
  { <<Repeat("x", n)>> : n \in (1999 - AuthorityMargin)..(1999 + AuthorityMargin) }
    \cup { <<Repeat("x", n), <<"7", " ", "U">> >> :
             n \in (1994 - AuthorityMargin)..(1994 + AuthorityMargin) }

AuthorityRuleInfos(n) ==
  IF n = N1
    THEN {[info EXCEPT !.authority = authority] :
            info \in {i \in RuleInfos(n) : i.comments_close_on = None /\ i.regulation_id_numbers = <<>>},
            authority \in LongAuthorities}
    ELSE RuleInfos(n)

\* DiscoverCreate for the filings above; the documents of the filing are fixed.
DiscoverCreateAuthority ==
  /\ pc = "discover" /\ feed # <<>>
  /\ Len(store) < MaxPages
  /\ LET register_id == feed[1].document_number
     IN /\ ~IsKnown(register_id, already_in_notion)
        /\ \E rule_info \in AuthorityRuleInfos(register_id),
              doc_infos \in [1..1 -> Listable(register_id)],
              dockets \in {a \in DocketAnswers : Docket_from_api(a[K1]).rin = <<>>} :
             /\ ~IsCorrection(rule_info)
             /\ store' = insert_into_db(store,
                           DiscoveryProperties(register_id, rule_info, doc_infos, dockets))
             /\ last' = [op |-> "create", register_id |-> register_id, rule_info |-> rule_info,
                         doc_infos |-> doc_infos, dockets |-> dockets]
  /\ feed' = Tail(feed)
  /\ UNCHANGED <<pc, already_in_notion, rule_rows, ALWAYS_UPDATE_DOCKET_DATA, run>>

InitAuthority ==
  /\ store = <<>>
  /\ pc = "idle"
  /\ already_in_notion = {}
  /\ feed = <<>>
  /\ rule_rows = <<>>
  /\ ALWAYS_UPDATE_DOCKET_DATA = FALSE
  /\ run = NoRun
  /\ last = NoIteration

NextAuthority ==
  \/ StartDiscovery
  \/ DiscoverKnown
  \/ DiscoverCorrection
  \/ DiscoverCreateAuthority
  \/ DiscoverDone

SpecAuthority == InitAuthority /\ [][NextAuthority]_vars

\* ------------------------------------------------------------------ Docket.from_api on keyword lists

MaxTermLen == 5
MaxShortTermLen == 2

TermChars == {"a", "b", ",", " "}

TermA == <<"t", "e", "r", "m", "-", "a">>
TermB == <<"t", "e", "r", "m", "-", "b">>
Tetrafluoropropene ==
  <<"1", ",", "2", ",", "3", ",", "4", "-", "t", "e", "t", "r", "a",
    "f", "l", "u", "o", "r", "o", "p", "r", "o", "p", "e", "n", "e">>

\* data['attributes']['keywords'] of a docket: nothing, one entry of up to
\* MaxTermLen characters, two entries of up to MaxShortTermLen characters, or
\* one of the two lists seen in the wild.
KeywordLists ==
  {<<>>}
    \cup {<<term>> : term \in SeqsUpTo(TermChars, MaxTermLen) \ {<<>>}}
    \cup {<<s, t>> : s, t \in SeqsUpTo(TermChars, MaxShortTermLen) \ {<<>>}}
    \cup {<<TermA \o CommaSpace \o TermB>>, <<Tetrafluoropropene>>}

\* regulations_gov.get_docket answered, Docket.from_api has yet to parse it.
InitKeywords ==
  /\ store = <<>>
  /\ pc = "idle"
  /\ already_in_notion = {}
  /\ feed = <<>>
  /\ rule_rows = <<>>
  /\ ALWAYS_UPDATE_DOCKET_DATA = FALSE
  /\ run = NoRun
  /\ \E keywords \in KeywordLists :
       last = [op |-> "get_docket", data |-> DocketData(K1, <<>>, keywords)]

FromApi ==
  /\ last.op = "get_docket"
  /\ last' = [op |-> "from_api", data |-> last.data, docket |-> Docket_from_api(last.data)]
  /\ UNCHANGED <<store, pc, already_in_notion, feed, rule_rows, ALWAYS_UPDATE_DOCKET_DATA, run>>

NextKeywords == FromApi

SpecKeywords == InitKeywords /\ [][NextKeywords]_vars

\* ------------------------------------------------------------------ discovery of filings with malformed agency entries

MaxAgencies == 2

\* An entry of rule_info['agencies']: without an id (the listing seen in the
\* wild), complete, or with an id and no name.
AgencyEntries ==
  { [raw_name |-> <<"O", "I", "G">>],
    [id |-> 17, name |-> <<"E", "P", "A">>],
    [id |-> 5, name |-> <<"D", "O", "T">>],
    [id |-> 9] }

AgencyRuleInfos(n) ==
  IF n = N1
    THEN {[info EXCEPT !.agencies = agencies] :
            info \in {i \in RuleInfos(n) : i.comments_close_on = None /\ i.regulation_id_numbers = <<>>},
            agencies \in SeqsUpTo(AgencyEntries, MaxAgencies)}
    ELSE RuleInfos(n)

\* FrAgency(id=agency['id'], name=agency['name']) can be built for every entry that has an id
HasAgencyNames(rule_info) ==
  \A i \in 1..Len(rule_info.agencies) :
    "id" \in DOMAIN rule_info.agencies[i] => "name" \in DOMAIN rule_info.agencies[i]

\* DiscoverCreate for the filings above; the documents of the filing are fixed.
DiscoverCreateAgencies ==
  /\ pc = "discover" /\ feed # <<>>
  /\ Len(store) < MaxPages
  /\ LET register_id == feed[1].document_number
     IN /\ ~IsKnown(register_id, already_in_notion)
        /\ \E rule_info \in AgencyRuleInfos(register_id),
              doc_infos \in [1..1 -> Listable(register_id)],
              dockets \in {a \in DocketAnswers : Docket_from_api(a[K1]).rin = <<>>} :
             /\ ~IsCorrection(rule_info)
             /\ HasAgencyNames(rule_info)
             /\ store' = insert_into_db(store,
                           DiscoveryProperties(register_id, rule_info, doc_infos, dockets))
             /\ last' = [op |-> "create", register_id |-> register_id, rule_info |-> rule_info,
                         doc_infos |-> doc_infos, dockets |-> dockets]
  /\ feed' = Tail(feed)
  /\ UNCHANGED <<pc, already_in_notion, rule_rows, ALWAYS_UPDATE_DOCKET_DATA, run>>

\* agency['name'] raises KeyError while ProposedRule is built: nothing in main
\* catches it, the process ends before insert_into_db.
DiscoverKeyError ==
  /\ pc = "discover" /\ feed # <<>>
  /\ LET register_id == feed[1].document_number
     IN /\ ~IsKnown(register_id, already_in_notion)
        /\ \E rule_info \in AgencyRuleInfos(register_id) :
             /\ ~IsCorrection(rule_info)
             /\ ~HasAgencyNames(rule_info)
             /\ last' = [op |-> "failed", job |-> "discover", at |-> register_id,
                         dropped |-> [i \in 1..(Len(feed) - 1) |-> feed[i + 1].document_number],
                         error |-> "KeyError", rule_info |-> rule_info]
  /\ pc' = "idle"
  /\ feed' = <<>>
  /\ run' = NoRun
  /\ already_in_notion' = {}
  /\ UNCHANGED <<store, rule_rows, ALWAYS_UPDATE_DOCKET_DATA>>

InitAgencies ==
  /\ store = <<>>
  /\ pc = "idle"
  /\ already_in_notion = {}
  /\ feed = <<>>
  /\ rule_rows = <<>>
  /\ ALWAYS_UPDATE_DOCKET_DATA = FALSE
  /\ run = NoRun
  /\ last = NoIteration

NextAgencies ==
  \/ StartDiscovery
  \/ DiscoverKnown
  \/ DiscoverCorrection
  \/ DiscoverCreateAgencies
  \/ DiscoverKeyError
  \/ DiscoverDone

SpecAgencies == InitAgencies /\ [][NextAgencies]_vars

\* ------------------------------------------------------------------ properties

\* What the store holds, read from the cells without the refresh job's parsers:
\* the linked runs of an id list are its ids.
LinkedIds(cell) ==
  {cell.rich_text[i].plain_text : i \in {j \in 1..Len(cell.rich_text) : cell.rich_text[j].link # <<>>}}

NumberOf(page) == cell_as_text(page.properties["FR Document Number"])

DateOf(properties) == properties["Comment End Date"].date

\* The RINs of a page, as the comma separated text lists them.
RinSet(properties) == set(parse_rich_text_list(properties["RINs"]))

IsPlaceholder(rin) == Lower(rin) = NotAssignedLower

PresentDates(doc_infos) ==
  {doc_infos[i].attributes.commentEndDate :
     i \in {j \in 1..Len(doc_infos) : doc_infos[j].attributes.commentEndDate # None}}

MaxOrNone(S) == IF S = {} THEN None ELSE Max(S)

\* C1: a discovery run never creates a page for a document number the store
\* held when the run began, and the store never holds two pages with the same
\* FR Document Number (every listing names a number at most once).
C1_NeverReinserted ==
  /\ last.op = "create" => last.register_id \notin run.held
  /\ \A i, j \in Pages : NumberOf(store[i]) = NumberOf(store[j]) => i = j

C1_Witness ==
  /\ pc = "discover" /\ last.op = "known"
  /\ last.register_id \in run.held
  /\ Len(store) = 2

\* C2 (as claimed): the Comment End Date that discovery writes is the maximum
\* of the present dates among the documents' dates and the register's date,
\* and absent when there is none.
C2_MaxOfDocumentsAndFallback ==
  last.op = "create" =>
    DateOf(store[Len(store)].properties) =
      MaxOrNone(PresentDates(last.doc_infos)
                  \cup ({last.rule_info.comments_close_on} \ {None}))

\* C3 (as claimed): a failure in one record does not abort the batch: no
\* record that comes after the failing one is left unprocessed.
C3_FailureKeepsBatch == last.op = "failed" => last.dropped = <<>>

\* The stored state of a page already equals what the listing yields: same
\* document ids, same docket ids, stored date equal to the latest listed date.
UpToDate(properties, doc_infos) ==
  /\ LinkedIds(properties["Docket Documents"]) = set(FoundDocs(doc_infos))
  /\ LinkedIds(properties["Dockets"]) = set(FoundDockets(doc_infos))
  /\ DateOf(properties) =
       MaxOrNone({TruncateToMinute(d) : d \in PresentDates(doc_infos)})

\* C4: a refresh of an up-to-date page computes no update and writes nothing,
\* and a refresh repeated on the answers of the one just made computes no update.
C4_RefreshNoOp ==
  last.op = "refresh" =>
    /\ UpToDate(last.old, last.doc_infos) =>
         (DOMAIN last.updates = {} /\ store[last.page].properties = last.old)
    /\ DOMAIN RefreshUpdates(store[last.page].properties, last.doc_infos, last.dockets,
                             ALWAYS_UPDATE_DOCKET_DATA) = {}

C4_Witness ==
  /\ last.op = "refresh"
  /\ UpToDate(last.old, last.doc_infos)
  /\ FoundDocs(last.doc_infos) = <<D2, D1>>
  /\ DateOf(last.old) # None

\* C5: after a refresh the stored RINs include every RIN stored before that is
\* not the placeholder, whatever the dockets report.
C5_RinsMonotonic ==
  last.op = "refresh" =>
    {rin \in RinSet(last.old) : ~IsPlaceholder(rin)} \subseteq RinSet(store[last.page].properties)

C5_Witness ==
  /\ last.op = "refresh"
  /\ "RINs" \in DOMAIN last.updates
  /\ R2 \in RinSet(last.old)
  /\ RinSet(store[last.page].properties) = {R1, R2}

\* The refresh entered the docket metadata block.
Recomputed(iteration) ==
  ALWAYS_UPDATE_DOCKET_DATA \/ "Dockets" \in DOMAIN iteration.updates

FetchedRins(iteration) ==
  LET found_dockets == FoundDockets(iteration.doc_infos)
  IN {Docket_from_api(iteration.dockets[found_dockets[i]]).rin : i \in 1..Len(found_dockets)}
       \ {<<>>}

\* C6 (as claimed): when a refresh recomputes the docket metadata, the stored
\* RINs afterwards are the old ones without any placeholder, in any letter
\* case, together with the RINs of the fetched dockets.
C6_RinsCleanedAndUnited ==
  (last.op = "refresh" /\ Recomputed(last)) =>
    RinSet(store[last.page].properties) =
      {rin \in RinSet(last.old) : ~IsPlaceholder(rin)} \cup FetchedRins(last)

\* C7: a refresh leaves the stored date at the maximum of the date stored
\* before and the minute-truncated listed dates: never earlier than before,
\* never from present to absent.
C7_DateNeverRegresses ==
  last.op = "refresh" =>
    /\ DateOf(store[last.page].properties) =
         Max({DateOf(last.old)} \cup {TruncateToMinute(d) : d \in PresentDates(last.doc_infos)})
    /\ DateOf(store[last.page].properties) >= DateOf(last.old)
    /\ DateOf(last.old) # None => DateOf(store[last.page].properties) # None

C7_Witness ==
  /\ last.op = "refresh"
  /\ DateOf(last.old) # None
  /\ PresentDates(last.doc_infos) # {}
  /\ \A d \in PresentDates(last.doc_infos) : TruncateToMinute(d) < DateOf(last.old)
  /\ DateOf(store[last.page].properties) = DateOf(last.old)

\* C8: a refresh updates Docket Documents (Dockets) exactly when the listed
\* document ids (docket ids) differ from the stored ones as sets.
C8_UpdateIffSetsDiffer ==
  last.op = "refresh" =>
    /\ "Docket Documents" \in DOMAIN last.updates
         <=> LinkedIds(last.old["Docket Documents"]) # set(FoundDocs(last.doc_infos))
    /\ "Dockets" \in DOMAIN last.updates
         <=> LinkedIds(last.old["Dockets"]) # set(FoundDockets(last.doc_infos))

C8_Witness ==
  /\ last.op = "refresh"
  /\ parse_rich_text_list(last.old["Docket Documents"]) = <<D1, D2>>
  /\ FoundDocs(last.doc_infos) \in {<<D2, D1>>, <<D2, D2>>}
  /\ "Docket Documents" \notin DOMAIN last.updates
  /\ "Dockets" \notin DOMAIN last.updates

RefreshedFields ==
  {"Docket Documents", "Dockets", "Docket Keywords", "RINs", "Comment End Date"}

\* C9 (as claimed): an update of the refresh job names only documents,
\* dockets, keywords, RINs and the comment end date.
C9_OnlyFiveFields ==
  last.op = "refresh" => DOMAIN last.updates \subseteq RefreshedFields

\* C9 (amended): an update of the refresh job names only documents, dockets,
\* keywords, the combined Tags, RINs and the comment end date; every other
\* property of the page is as it was.
C9_OnlyRefreshedFieldsAndTags ==
  last.op = "refresh" =>
    /\ DOMAIN last.updates \subseteq RefreshedFields \cup {"Tags"}
    /\ \A name \in DOMAIN last.old \ (RefreshedFields \cup {"Tags"}) :
         store[last.page].properties[name] = last.old[name]
    /\ DOMAIN store[last.page].properties = DOMAIN last.old

C9_Witness ==
  /\ last.op = "refresh"
  /\ "Tags" \in DOMAIN last.updates
  /\ "Docket Keywords" \in DOMAIN last.updates

\* C10: no page is created for a filing whose detail names a correction_of;
\* the iteration that meets one leaves the store as it is and the run goes on
\* with the next filing.
C10_CorrectionsSkipped ==
  /\ [](last.op = "create" => last.rule_info.correction_of = <<>>)
  /\ [][(last'.op = "correction" /\ feed' # feed) =>
          (store' = store /\ pc' = "discover" /\ feed' = Tail(feed))]_vars

C10_Witness ==
  /\ pc = "discover" /\ last.op = "correction"
  /\ last.rule_info.correction_of # <<>>
  /\ feed # <<>>
  /\ last.register_id \notin HeldNumbers(store)

\* The text of a rich text cell as the store holds it.
WrittenText(cell) == Concat([i \in 1..Len(cell.rich_text) |-> cell.rich_text[i].plain_text])

\* C11 (as claimed): the Authority text that discovery writes is the joined
\* citations unchanged when they have at most 2000 characters, and otherwise
\* their first 1999 characters followed by one ellipsis character: never more
\* than 2000 characters, and 2000 characters are written as they are.
C11_AuthorityCutOver2000 ==
  last.op = "create" =>
    LET joined == join(<<";", " ">>, last.rule_info.authority)
        written == WrittenText(store[Len(store)].properties["Authority"])
    IN /\ Len(joined) <= 2000 => written = joined
       /\ Len(joined) > 2000 =>
            /\ Len(written) = 2000
            /\ SubSeq(written, 1, 1999) = SubSeq(joined, 1, 1999)
            /\ written[2000] \notin Chars
       /\ Len(written) <= 2000

Trimmed(term) ==
  term = <<>> \/ (term[1] \notin {",", " "} /\ term[Len(term)] \notin {",", " "})

\* C12 (as claimed): Docket.from_api splits a single entry that has comma and
\* space separators into its terms, keeps a single entry whose commas are not
\* followed by a space as exactly one keyword, unchanged, and returns no
\* keyword that begins or ends with a comma or a space.
C12_KeywordsSplitKeptTrimmed ==
  last.op = "from_api" =>
    LET listed == last.data.attributes.keywords
        keywords == last.docket.keywords
    IN /\ listed = <<TermA \o CommaSpace \o TermB>> => keywords = <<TermA, TermB>>
       /\ (Len(listed) = 1 /\ Contains(listed[1], CommaSpace) /\ Trimmed(listed[1])) =>
            (Len(keywords) > 1 /\ \A i \in 1..Len(keywords) : ~Contains(keywords[i], CommaSpace))
       /\ (Len(listed) = 1 /\ ~Contains(listed[1], CommaSpace) /\ Trimmed(listed[1])) =>
            keywords = listed
       /\ \A i \in 1..Len(keywords) : Trimmed(keywords[i])

\* The agency entries that have both required fields.
IsComplete(agency) == "id" \in DOMAIN agency /\ "name" \in DOMAIN agency

\* C13 (as claimed): an agency entry that lacks its id or its name is dropped
\* on its own: the page of the filing is created, its Agencies are the names of
\* the complete entries in their order, and the run goes on.
C13_IncompleteAgencyDropped ==
  (/\ last.op \in {"create", "failed"}
   /\ \E i \in 1..Len(last.rule_info.agencies) : ~IsComplete(last.rule_info.agencies[i])) =>
    /\ last.op = "create"
    /\ pc = "discover"
    /\ LET complete == SelectSeq(last.rule_info.agencies, IsComplete)
       IN store[Len(store)].properties["Agencies"].multi_select =
            [i \in 1..Len(complete) |-> complete[i].name]

IsRequest(entry) == entry.call \in {"find_documents_by_register_id", "get_docket"}

GetDocketCalls(iteration) == SelectSeq(iteration.calls, LAMBDA entry : entry.call = "get_docket")

FetchedKeywords(iteration) ==
  LET found_dockets == FoundDockets(iteration.doc_infos)
  IN UNION {set(Docket_from_api(iteration.dockets[found_dockets[i]]).keywords) :
              i \in 1..Len(found_dockets)}

\* C15 (as claimed): when the listed docket ids are the stored ones and the
\* flag is off, a refresh sends no get_docket and updates none of Docket
\* Keywords, Tags and RINs; when they differ or the flag is on, every listed
\* docket is fetched exactly once, the stored keywords become the keywords of
\* the fetched dockets and the stored RINs include theirs.
C15_MetadataGatedOnDockets ==
  last.op = "refresh" =>
    LET unchanged == LinkedIds(last.old["Dockets"]) = set(FoundDockets(last.doc_infos))
        fetches == GetDocketCalls(last)
        after == store[last.page].properties
    IN /\ (unchanged /\ ~ALWAYS_UPDATE_DOCKET_DATA) =>
            /\ fetches = <<>>
            /\ DOMAIN last.updates \cap {"Docket Keywords", "Tags", "RINs"} = {}
       /\ (~unchanged \/ ALWAYS_UPDATE_DOCKET_DATA) =>
            /\ {fetches[i].arg : i \in 1..Len(fetches)} = set(FoundDockets(last.doc_infos))
            /\ \A i, j \in 1..Len(fetches) : fetches[i].arg = fetches[j].arg => i = j
            /\ parse_multiselect_set(after["Docket Keywords"]) = FetchedKeywords(last)
            /\ FetchedRins(last) \subseteq RinSet(after)

\* The page that the latest iteration wrote.
WrittenPage == IF last.op = "create" THEN store[Len(store)] ELSE store[last.page]

\* C16 (as claimed): when discovery creates a page, and when a refresh changes
\* the stored keywords, the Tags written are the union of the page's topics
\* and its docket keywords: every one of them, nothing else, and each label
\* once, also when a topic and a keyword are the same label.
C16_TagsAreUnion ==
  (last.op = "create" \/ (last.op = "refresh" /\ "Docket Keywords" \in DOMAIN last.updates)) =>
    LET properties == WrittenPage.properties
        tags == properties["Tags"].multi_select
    IN /\ set(tags) = set(properties["FR Topics"].multi_select)
                        \cup set(properties["Docket Keywords"].multi_select)
       /\ Injective(tags)

\* The linked runs of an id list, in the order of the cell.
LinkedIdList(cell) ==
  LET linked == SelectSeq(cell.rich_text, LAMBDA segment : segment.link # <<>>)
  IN [i \in 1..Len(linked) |-> linked[i].plain_text]

\* C17 (as claimed): when several documents of a filing belong to one docket,
\* the Dockets field that discovery and refresh write lists the docket id
\* once, and a refresh that recomputes the docket metadata fetches the docket
\* once.
C17_DocketsDeduplicated ==
  /\ last.op = "create" => Injective(LinkedIdList(store[Len(store)].properties["Dockets"]))
  /\ (last.op = "refresh" /\ "Dockets" \in DOMAIN last.updates) =>
       Injective(LinkedIdList(store[last.page].properties["Dockets"]))
  /\ (last.op = "refresh" /\ Recomputed(last)) =>
       LET fetches == GetDocketCalls(last)
       IN Injective([i \in 1..Len(fetches) |-> fetches[i].arg])

====
